---------------------------- MODULE Spec2Model ----------------------------
(***************************************************************************)
(* Model of gprotorch/kernels/fingerprint_kernels/base_fingerprint_kernel  *)
(* (BitDistance and BitKernel).                                            *)
(*                                                                         *)
(* A tensor is a record [shape, at]: shape is the sequence of its          *)
(* dimensions and at maps every index tuple (1-based) to an entry.  Input  *)
(* tensors carry requires_grad as well.  Inputs hold bounded integers and  *)
(* the arithmetic is exact: a quotient is a pair <<num, den>> in lowest    *)
(* terms with den > 0, and a division by zero gives <<1, 0>> (+inf),       *)
(* <<-1, 0>> (-inf) or <<0, 0>> (NaN), as IEEE division does.  Rounding    *)
(* error of floating point is outside the model.                           *)
(***************************************************************************)
EXTENDS Integers, Sequences, FiniteSets, TLC

VARIABLES
    metric,           \* BitKernel.metric
    distance_module,  \* BitKernel.distance_module: None or the cached BitDistance
    built,            \* number of BitDistance objects constructed so far
    call,             \* arguments of the call of covar_dist under way or last made
    res,              \* what covar_dist(x1, x2, ...) returned or raised
    resT,             \* what covar_dist(x2, x1, ...) returned or raised
    pc,               \* "ready" | "done" | "swapped": position of the single caller
    ncalls,           \* number of sequential calls made on the kernel
    th                \* the concurrent callers: position and locals of each

vars == <<metric, distance_module, built, call, res, resT, pc, ncalls, th>>

----------------------------------------------------------------------------
(* Bounds of the model *)

\* largest number of points N, M of an input
MaxN == 2
\* largest feature dimension D of an input
MaxD == 2
\* largest batch dimension B of a batched input
MaxB == 2
\* largest number of entries of a non-batched or batched input
MaxElems == 4
\* largest feature dimension D of an input with last_dim_is_batch=True
MaxLD == 3
\* largest number of entries of an input with last_dim_is_batch=True
MaxLElems == 6
\* largest number of sequential calls on one kernel
MaxCalls == 3
\* the entries of count vectors
CountVals == {-1, 0, 1}
\* the entries of bit vectors
BitVals == {0, 1}

----------------------------------------------------------------------------
(* Exact arithmetic on entries *)

Abs(n) == IF n < 0 THEN -n ELSE n

Sign(n) == IF n < 0 THEN -1 ELSE IF n > 0 THEN 1 ELSE 0

RECURSIVE GCD(_, _)
GCD(a, b) == IF b = 0 THEN a ELSE GCD(b, a % b)

NaN == <<0, 0>>

Zero == <<0, 1>>

One == <<1, 1>>

\* c / d of two integer entries: true division, IEEE at d = 0
TrueDiv(c, d) ==
    IF d = 0 THEN <<Sign(c), 0>>
    ELSE LET g == GCD(Abs(c), Abs(d))
         IN  <<(Sign(d) * c) \div g, Abs(d) \div g>>

RECURSIVE SeqSum(_)
SeqSum(s) == IF s = <<>> THEN 0 ELSE s[1] + SeqSum(Tail(s))

----------------------------------------------------------------------------
(* Tensors: shapes, indices, broadcasting *)

DropLast(s) == SubSeq(s, 1, Len(s) - 1)

\* the index tuples of a tensor of this shape
RECURSIVE Indices(_)
Indices(shape) ==
    IF shape = <<>> THEN {<<>>}
    ELSE {Append(i, k) : i \in Indices(DropLast(shape)), k \in 1..shape[Len(shape)]}

\* the leading (batch) dimensions of a matrix shape [..., n, m]
BatchOf(s) == SubSeq(s, 1, Len(s) - 2)

RankMax(s, t) == IF Len(s) >= Len(t) THEN Len(s) ELSE Len(t)

\* shape s aligned to the right in rank r, padded with 1 on the left
Pad(s, r) == [k \in 1..r |-> IF k <= r - Len(s) THEN 1 ELSE s[k - (r - Len(s))]]

\* torch's broadcasting rule: aligned to the right, two dimensions are
\* compatible when they are equal or one of them is 1
Broadcastable(s, t) ==
    LET r == RankMax(s, t)
    IN  \A k \in 1..r :
            \/ Pad(s, r)[k] = Pad(t, r)[k]
            \/ Pad(s, r)[k] = 1
            \/ Pad(t, r)[k] = 1

BroadcastShape(s, t) ==
    LET r == RankMax(s, t)
    IN  [k \in 1..r |-> IF Pad(s, r)[k] = 1 THEN Pad(t, r)[k] ELSE Pad(s, r)[k]]

\* the index into a tensor of shape s that index i of the broadcast result reads
Proj(i, s) ==
    [k \in 1..Len(s) |-> IF s[k] = 1 THEN 1 ELSE i[k + (Len(i) - Len(s))]]

\* a + b with broadcasting
Add(a, b) ==
    LET s == BroadcastShape(a.shape, b.shape)
    IN  [shape |-> s,
         at |-> [i \in Indices(s) |-> a.at[Proj(i, a.shape)] + b.at[Proj(i, b.shape)]]]

\* a - b with broadcasting
Sub(a, b) ==
    LET s == BroadcastShape(a.shape, b.shape)
    IN  [shape |-> s,
         at |-> [i \in Indices(s) |-> a.at[Proj(i, a.shape)] - b.at[Proj(i, b.shape)]]]

\* a / b with broadcasting
Div(a, b) ==
    LET s == BroadcastShape(a.shape, b.shape)
    IN  [shape |-> s,
         at |-> [i \in Indices(s) |-> TrueDiv(a.at[Proj(i, a.shape)], b.at[Proj(i, b.shape)])]]

\* x.pow(2).sum(dim=-1, keepdim=keepdim)
Pow2Sum(x, keepdim) ==
    LET d == x.shape[Len(x.shape)]
        s == IF keepdim THEN [x.shape EXCEPT ![Len(x.shape)] = 1] ELSE DropLast(x.shape)
    IN  [shape |-> s,
         at |-> [i \in Indices(s) |->
                   LET row == IF keepdim THEN DropLast(i) ELSE i
                   IN  SeqSum([k \in 1..d |-> x.at[Append(row, k)] * x.at[Append(row, k)]])]]

\* t.squeeze(-1): the last dimension is dropped when (and only when) it is 1
Squeeze(t) ==
    IF Len(t.shape) >= 1 /\ t.shape[Len(t.shape)] = 1
    THEN [shape |-> DropLast(t.shape), at |-> [i \in Indices(DropLast(t.shape)) |-> t.at[Append(i, 1)]]]
    ELSE t

\* t.unsqueeze(-1)
Unsqueeze(t) ==
    [shape |-> Append(t.shape, 1),
     at |-> [i \in Indices(Append(t.shape, 1)) |-> t.at[DropLast(i)]]]

SwapLast(i) ==
    LET n == Len(i)
    IN  [k \in 1..n |-> IF k = n THEN i[n - 1] ELSE IF k = n - 1 THEN i[n] ELSE i[k]]

\* t.transpose(-2, -1) (and transpose(-1, -2))
Transpose(t) ==
    [shape |-> SwapLast(t.shape),
     at |-> [i \in Indices(SwapLast(t.shape)) |-> t.at[SwapLast(i)]]]

\* a.matmul(b) is defined when the inner dimensions agree and the batch
\* dimensions broadcast
MatmulOK(a, b) ==
    /\ Len(a.shape) >= 2
    /\ Len(b.shape) >= 2
    /\ a.shape[Len(a.shape)] = b.shape[Len(b.shape) - 1]
    /\ Broadcastable(BatchOf(a.shape), BatchOf(b.shape))

Matmul(a, b) ==
    LET ba == BatchOf(a.shape)
        bb == BatchOf(b.shape)
        bs == BroadcastShape(ba, bb)
        d  == a.shape[Len(a.shape)]
        s  == bs \o <<a.shape[Len(a.shape) - 1], b.shape[Len(b.shape)]>>
    IN  [shape |-> s,
         at |-> [i \in Indices(s) |->
                   LET bi == SubSeq(i, 1, Len(bs))
                       r  == i[Len(bs) + 1]
                       c  == i[Len(bs) + 2]
                   IN  SeqSum([k \in 1..d |->
                                 a.at[Proj(bi, ba) \o <<r, k>>] * b.at[Proj(bi, bb) \o <<k, c>>]])]]

\* torch.equal(x1, x2): same shape and same entries (requires_grad is not compared)
TorchEqual(x1, x2) == x1.shape = x2.shape /\ x1.at = x2.at

\* the positions res.diagonal(dim1=-2, dim2=-1) views
OnDiagonal(i) == i[Len(i) - 1] = i[Len(i)]

\* FillDiagonal with the fill left out
FillDiagonal_Skipped(t) == t

\* res.diagonal(dim1=-2, dim2=-1).fill_(1)
FillDiagonal(t) ==
    [shape |-> t.shape, at |-> [i \in Indices(t.shape) |-> IF OnDiagonal(i) THEN One ELSE t.at[i]]]

\* ClampMin0 left out
ClampMin0_Skipped(t) == t

\* ClampMin0 as max(x, 0) with a comparison that NaN fails: NaN becomes 0 too
ClampMin0_NaNToZero(t) ==
    [shape |-> t.shape,
     at |-> [i \in Indices(t.shape) |-> IF t.at[i][1] < 0 \/ t.at[i] = NaN THEN Zero ELSE t.at[i]]]

\* res.clamp_min_(0): a negative entry (and -inf) becomes 0, NaN stays NaN
ClampMin0(t) ==
    [shape |-> t.shape, at |-> [i \in Indices(t.shape) |-> IF t.at[i][1] < 0 THEN Zero ELSE t.at[i]]]


----------------------------------------------------------------------------
(* BitDistance *)

\* Supported with the constructor's default '' let through
Supported_WithDefault == {"tanimoto", ""}

\* the metric tags _sim accepts
Supported == {"tanimoto"}

\* gpytorch's default_postprocess_script (the identity) and two other scripts
PostFns == {"default_postprocess_script", "f", "g"}

\* what a call that raised holds in place of a matrix
NoTensor == [shape |-> <<>>, at |-> <<>>]

Raised(kind) == [kind |-> kind, val |-> NoTensor, post |-> "none"]

Returned(t, post) == [kind |-> "ok", val |-> t, post |-> post]

\* BitDistance(postprocess_script): a new object, told apart by its id
BitDistance(id, postprocess_script) == [id |-> id, _postprocess |-> postprocess_script]

\* FastPath without the test of x2.requires_grad
FastPath_X1GradOnly(x1, x2, x1_eq_x2) == x1_eq_x2 /\ ~x1.requires_grad

\* the guard of the equal-inputs branches of _sim
FastPath(x1, x2, x1_eq_x2) == x1_eq_x2 /\ ~x1.requires_grad /\ ~x2.requires_grad

\* x2_norm: x1's norm (keepdim=True) on the fast path, else x2's (keepdim=False)
X2Norm(x1, x2, x1_eq_x2) ==
    IF FastPath(x1, x2, x1_eq_x2) THEN Pow2Sum(x1, TRUE) ELSE Pow2Sum(x2, FALSE)

\* x1_norm + x2_norm.squeeze(-1), the first half of the denominator
NormSum(x1_norm, x2_norm) == Add(x1_norm, Squeeze(x2_norm))

\* denominator = x1_norm + x2_norm.squeeze(-1) - cross_product
Denominator(x1_norm, x2_norm, cross_product) ==
    Sub(NormSum(x1_norm, x2_norm), cross_product)

\* the tensor _sim returns for metric 'tanimoto' once every shape has matched
Tanimoto(x1, x2, x1_eq_x2) ==
    LET x1_norm       == Pow2Sum(x1, TRUE)
        x2_norm       == X2Norm(x1, x2, x1_eq_x2)
        cross_product == Matmul(x1, Transpose(x2))
        denominator   == Denominator(x1_norm, x2_norm, cross_product)
        quotient      == Div(cross_product, denominator)
        patched       == IF FastPath(x1, x2, x1_eq_x2) THEN FillDiagonal(quotient) ELSE quotient
    IN  ClampMin0(patched)

\* whether matmul and the broadcasts of the denominator go through
ShapesMatch(x1, x2, x1_eq_x2) ==
    /\ MatmulOK(x1, Transpose(x2))
    /\ Broadcastable(Pow2Sum(x1, TRUE).shape, Squeeze(X2Norm(x1, x2, x1_eq_x2)).shape)
    /\ Broadcastable(BroadcastShape(Pow2Sum(x1, TRUE).shape, Squeeze(X2Norm(x1, x2, x1_eq_x2)).shape),
                     Matmul(x1, Transpose(x2)).shape)

\* BitDistance._sim
_sim(self, x1, x2, postprocess, x1_eq_x2, metric_) ==
    IF metric_ \notin Supported THEN Raised("UnsupportedMetric")
    ELSE IF ~ShapesMatch(x1, x2, x1_eq_x2) THEN Raised("ShapeError")
    ELSE Returned(Tanimoto(x1, x2, x1_eq_x2), IF postprocess THEN self._postprocess ELSE "none")

----------------------------------------------------------------------------
(* BitKernel *)

\* Kernel.__init__ leaves distance_module unset
None == [id |-> 0, _postprocess |-> "none"]

\* the reinterpretation of the last dimension as a batch
Reshape(x, last_dim_is_batch) ==
    IF last_dim_is_batch
    THEN [shape |-> Unsqueeze(Transpose(x)).shape, at |-> Unsqueeze(Transpose(x)).at,
          requires_grad |-> x.requires_grad]
    ELSE x

\* NeedsRebuild without the comparison of the postprocess functions
NeedsRebuild_NoneOnly(module, dist_postprocess_func) == module = None

\* the cache test: no module yet, or one built with another postprocess function
NeedsRebuild(module, dist_postprocess_func) ==
    module = None \/ module._postprocess # dist_postprocess_func

\* the module covar_dist leaves cached
CachedModule(module, nbuilt, dist_postprocess_func) ==
    IF NeedsRebuild(module, dist_postprocess_func)
    THEN BitDistance(nbuilt + 1, dist_postprocess_func)
    ELSE module

\* BitKernel.covar_dist, on a kernel whose cache holds module: the result of the
\* call (the cache becomes CachedModule(...))
covar_dist(module, nbuilt, metric_, c) ==
    LET x1 == Reshape(c.x1, c.last_dim_is_batch)
        x2 == Reshape(c.x2, c.last_dim_is_batch)
        x1_eq_x2 == TorchEqual(x1, x2)
    IN  _sim(CachedModule(module, nbuilt, c.dist_postprocess_func),
             x1, x2, c.postprocess, x1_eq_x2, metric_)

\* the arguments of covar_dist(x2, x1, ...)
Swapped(c) == [c EXCEPT !.x1 = c.x2, !.x2 = c.x1]

----------------------------------------------------------------------------
(* Inputs *)

\* the tensors of one shape with entries in vals
TensorsOf(shape, vals) ==
    {[shape |-> shape, at |-> a, requires_grad |-> g] :
        a \in [Indices(shape) -> vals], g \in BOOLEAN}

\* a tensor written as its rows, without gradient tracking
Rows(rows) ==
    [shape |-> <<Len(rows), Len(rows[1])>>,
     at |-> [i \in Indices(<<Len(rows), Len(rows[1])>>) |-> rows[i[1]][i[2]]],
     requires_grad |-> FALSE]

Args(x1, x2, last_dim_is_batch, dist_postprocess_func, postprocess) ==
    [x1 |-> x1, x2 |-> x2, last_dim_is_batch |-> last_dim_is_batch,
     dist_postprocess_func |-> dist_postprocess_func, postprocess |-> postprocess]

\* the shapes [N, D] of non-batched inputs
PlainShapes ==
    {sh \in {<<n, d>> : n \in 1..MaxN, d \in 1..MaxD} : sh[1] * sh[2] <= MaxElems}

\* non-batched count vectors without gradient tracking
CountTensors ==
    {x \in UNION {TensorsOf(sh, CountVals) : sh \in PlainShapes} : ~x.requires_grad}

\* non-batched bit vectors, with and without gradient tracking
BitTensors == UNION {TensorsOf(sh, BitVals) : sh \in PlainShapes}

\* non-batched calls: x1 is [N, D] and x2 is [M, D], both count vectors or
\* both bit vectors
PlainCalls ==
    {Args(p[1], p[2], FALSE, "default_postprocess_script", FALSE) :
        p \in (CountTensors \X CountTensors) \cup (BitTensors \X BitTensors)}

\* the shapes [N, D] of inputs with last_dim_is_batch=True
LastDimShapes ==
    {sh \in {<<n, d>> : n \in 1..MaxN, d \in 1..MaxLD} : sh[1] * sh[2] <= MaxLElems}

\* square inputs with last_dim_is_batch=True: x1 and x2 hold the same [N, D]
\* bit vectors
LastDimCalls ==
    {Args(x1, [x1 EXCEPT !.requires_grad = g], TRUE, "default_postprocess_script", FALSE) :
        x1 \in UNION {TensorsOf(sh, BitVals) : sh \in LastDimShapes},
        g \in BOOLEAN}

\* the shapes [B, N, D] of batched inputs
BatchShapes ==
    {sh \in {<<b, n, d>> : b \in 1..MaxB, n \in 1..MaxN, d \in 1..MaxD} :
        sh[1] * sh[2] * sh[3] <= MaxElems}

\* batched bit vectors: x1 is [B, N, D] and x2 is [B, M, D]
BatchCalls ==
    {Args(x1, x2, FALSE, "default_postprocess_script", FALSE) :
        x1 \in UNION {TensorsOf(sh, BitVals) : sh \in BatchShapes},
        x2 \in UNION {TensorsOf(sh, BitVals) : sh \in BatchShapes}}

\* the worked examples
ExampleCalls ==
    {Args(Rows(<<<<1, 1, 0, 0>>>>), Rows(<<<<1, 0, 0, 0>>>>), FALSE, "default_postprocess_script", FALSE),
     Args(Rows(<<<<1, 1, 0, 0>>>>), Rows(<<<<0, 0, 1, 1>>>>), FALSE, "default_postprocess_script", FALSE),
     Args(Rows(<<<<1, 0, 1, 0>>>>), Rows(<<<<1, 0, 1, 0>>>>), FALSE, "default_postprocess_script", FALSE)}

\* x1 and x2 are a valid pair: same rank, same feature dimension, same batch
ValidPair(c) ==
    /\ Len(c.x1.shape) = Len(c.x2.shape)
    /\ c.x1.shape[Len(c.x1.shape)] = c.x2.shape[Len(c.x2.shape)]
    /\ BatchOf(c.x1.shape) = BatchOf(c.x2.shape)

----------------------------------------------------------------------------
(* One call of covar_dist(x1, x2) and one of covar_dist(x2, x1) on a kernel  *)
(* with metric 'tanimoto'                                                  *)

NoInput == [shape |-> <<>>, at |-> <<>>, requires_grad |-> FALSE]

NoCall == Args(NoInput, NoInput, FALSE, "none", FALSE)

Pending == [kind |-> "pending", val |-> NoTensor, post |-> "none"]

Threads == {1, 2}

Idle == [t \in Threads |-> [pc |-> "idle", c |-> NoCall, mod |-> None, out |-> Pending]]

InitSim ==
    /\ metric = "tanimoto"
    /\ distance_module = None
    /\ built = 0
    /\ call \in {c \in PlainCalls \cup LastDimCalls \cup BatchCalls \cup ExampleCalls : ValidPair(c)}
    /\ res = Pending
    /\ resT = Pending
    /\ pc = "ready"
    /\ ncalls = 0
    /\ th = Idle

\* the kernel's state after covar_dist(c)
Cache(c) ==
    /\ distance_module' = CachedModule(distance_module, built, c.dist_postprocess_func)
    /\ built' = IF NeedsRebuild(distance_module, c.dist_postprocess_func) THEN built + 1 ELSE built

\* forward(x1, x2)
Forward ==
    /\ pc = "ready"
    /\ res' = covar_dist(distance_module, built, metric, call)
    /\ Cache(call)
    /\ pc' = "done"
    /\ UNCHANGED <<metric, call, resT, ncalls, th>>

\* forward(x2, x1)
ForwardSwapped ==
    /\ pc = "done"
    /\ resT' = covar_dist(distance_module, built, metric, Swapped(call))
    /\ Cache(Swapped(call))
    /\ pc' = "swapped"
    /\ UNCHANGED <<metric, call, res, ncalls, th>>

NextSim == Forward \/ ForwardSwapped

SpecSim == InitSim /\ [][NextSim]_vars

----------------------------------------------------------------------------
(* A kernel used by one caller: a sequence of calls of forward *)

\* the metric tags a BitKernel is constructed with: the default '', the
\* supported one, and an unsupported one
Metrics == {"", "tanimoto", "euclidean"}

\* a [1, 2] input, a [2, 2] input that tracks gradients and a [3, 2, 1] batch
KernelInputs ==
    {Rows(<<<<1, 0>>>>),
     [Rows(<<<<1, 1>>, <<0, 1>>>>) EXCEPT !.requires_grad = TRUE],
     [shape |-> <<3, 2, 1>>, at |-> [i \in Indices(<<3, 2, 1>>) |-> 1], requires_grad |-> FALSE]}

KernelCalls ==
    {Args(x1, x2, l, f, p) :
        x1 \in KernelInputs, x2 \in KernelInputs, l \in BOOLEAN, f \in PostFns, p \in BOOLEAN}

\* BitKernel(metric): distance_module is None until the first call
Init ==
    /\ metric \in Metrics
    /\ distance_module = None
    /\ built = 0
    /\ call = NoCall
    /\ res = Pending
    /\ resT = Pending
    /\ pc = "ready"
    /\ ncalls = 0
    /\ th = Idle

\* forward(x1, x2, **params): one whole call of covar_dist
Call(c) ==
    /\ ncalls < MaxCalls
    /\ call' = c
    /\ res' = covar_dist(distance_module, built, metric, c)
    /\ Cache(c)
    /\ ncalls' = ncalls + 1
    /\ UNCHANGED <<metric, resT, pc, th>>

Next == \E c \in KernelCalls : Call(c)

Spec == Init /\ [][Next]_vars

----------------------------------------------------------------------------
(* A kernel shared by two callers: each makes one call of covar_dist with    *)
(* postprocess=True, and the steps of the two calls interleave              *)

ConcInputs == {Rows(<<<<1, 0>>>>), Rows(<<<<1, 1>>, <<0, 1>>>>)}

InitConc ==
    /\ metric = "tanimoto"
    /\ distance_module = None
    /\ built = 0
    /\ call = NoCall
    /\ res = Pending
    /\ resT = Pending
    /\ pc = "ready"
    /\ ncalls = 0
    /\ th = Idle

\* caller t enters covar_dist(x, x, dist_postprocess_func=f, postprocess=True)
Enter(t) ==
    /\ th[t].pc = "idle"
    /\ \E x \in ConcInputs, f \in PostFns :
         th' = [th EXCEPT ![t].pc = "check", ![t].c = Args(x, x, FALSE, f, TRUE)]
    /\ UNCHANGED <<metric, distance_module, built, call, res, resT, pc, ncalls>>

\* the test of the cached module
Check(t) ==
    /\ th[t].pc = "check"
    /\ th' = [th EXCEPT ![t].pc =
                IF NeedsRebuild(distance_module, th[t].c.dist_postprocess_func)
                THEN "build" ELSE "reread"]
    /\ UNCHANGED <<metric, distance_module, built, call, res, resT, pc, ncalls>>

\* self.distance_module = BitDistance(dist_postprocess_func)
Build(t) ==
    /\ th[t].pc = "build"
    /\ distance_module' = BitDistance(built + 1, th[t].c.dist_postprocess_func)
    /\ built' = built + 1
    /\ th' = [th EXCEPT ![t].pc = "reread"]
    /\ UNCHANGED <<metric, call, res, resT, pc, ncalls>>

\* the read of self.distance_module in self.distance_module._sim(...)
Reread(t) ==
    /\ th[t].pc = "reread"
    /\ th' = [th EXCEPT ![t].pc = "sim", ![t].mod = distance_module]
    /\ UNCHANGED <<metric, distance_module, built, call, res, resT, pc, ncalls>>

\* the call of _sim on the module read
Sim(t) ==
    /\ th[t].pc = "sim"
    /\ th' = [th EXCEPT ![t].pc = "done",
                        ![t].out = _sim(th[t].mod, th[t].c.x1, th[t].c.x2, th[t].c.postprocess,
                                        TorchEqual(th[t].c.x1, th[t].c.x2), metric)]
    /\ UNCHANGED <<metric, distance_module, built, call, res, resT, pc, ncalls>>

NextConc == \E t \in Threads : Enter(t) \/ Check(t) \/ Build(t) \/ Reread(t) \/ Sim(t)

SpecConc == InitConc /\ [][NextConc]_vars

----------------------------------------------------------------------------
(* The Tanimoto coefficient of two rows, written from its formula *)

\* row i of batch bi of a tensor [..., N, D], as a sequence of D entries
RowOf(x, bi, i) == [k \in 1..x.shape[Len(x.shape)] |-> x.at[bi \o <<i, k>>]]

Dot(u, v) == SeqSum([k \in 1..Len(u) |-> u[k] * v[k]])

\* |u|^2 + |v|^2 - <u, v>
Den(u, v) == Dot(u, u) + Dot(v, v) - Dot(u, v)

\* max(0, <u, v> / (|u|^2 + |v|^2 - <u, v>))
TanimotoOf(u, v) ==
    IF Dot(u, v) < 0 THEN Zero ELSE TrueDiv(Dot(u, v), Den(u, v))

IsZeroRow(u) == \A k \in 1..Len(u) : u[k] = 0

\* q is a number in [0, 1]
InUnit(q) == q[2] > 0 /\ 0 <= q[1] /\ q[1] <= q[2]

\* the call is on non-batched inputs [N, D], [M, D], read as they are
NonBatched(c) == Len(c.x1.shape) = 2 /\ Len(c.x2.shape) = 2 /\ ~c.last_dim_is_batch

\* the call is on batched inputs [B, N, D], [B, M, D], read as they are
Batched(c) == Len(c.x1.shape) = 3 /\ Len(c.x2.shape) = 3 /\ ~c.last_dim_is_batch

NoGrad(c) == ~c.x1.requires_grad /\ ~c.x2.requires_grad

Returned1 == pc \in {"done", "swapped"}

----------------------------------------------------------------------------
(* C1 *)

\* C1: for non-batched x1 [N, D] and x2 [M, D], metric 'tanimoto' and
\* postprocessing off, the call returns an N x M matrix whose entry [i, j] is
\* max(0, <x1[i], x2[j]> / (|x1[i]|^2 + |x2[j]|^2 - <x1[i], x2[j]>)) wherever
\* that denominator is not zero; [[1,1,0,0]] against [[1,0,0,0]] gives 1/2,
\* disjoint bit vectors give 0 and a vector against itself gives 1.
C1_TanimotoEntries ==
    (Returned1 /\ NonBatched(call) /\ ~call.postprocess) =>
        /\ res.kind = "ok"
        /\ res.post = "none"
        /\ res.val.shape = <<call.x1.shape[1], call.x2.shape[1]>>
        /\ \A i \in 1..call.x1.shape[1], j \in 1..call.x2.shape[1] :
             LET u == RowOf(call.x1, <<>>, i)
                 v == RowOf(call.x2, <<>>, j)
             IN  /\ Den(u, v) # 0 => res.val.at[<<i, j>>] = TanimotoOf(u, v)
                 /\ (Den(u, v) # 0 /\ Dot(u, v) = 0) => res.val.at[<<i, j>>] = Zero
                 /\ (Den(u, v) # 0 /\ u = v) => res.val.at[<<i, j>>] = One
        /\ (call.x1 = Rows(<<<<1, 1, 0, 0>>>>) /\ call.x2 = Rows(<<<<1, 0, 0, 0>>>>)) =>
             res.val.at[<<1, 1>>] = <<1, 2>>

\* a 2 x 2 result with an entry 1/2 and a negative quotient clamped to 0, and
\* the worked example's result
C1_Witness ==
    /\ Returned1 /\ NonBatched(call)
    /\ res.kind = "ok"
    /\ res.val.shape = <<2, 2>>
    /\ \E i \in 1..2, j \in 1..2 : res.val.at[<<i, j>>] = <<1, 2>>
    /\ \E i \in 1..2, j \in 1..2 :
         /\ Dot(RowOf(call.x1, <<>>, i), RowOf(call.x2, <<>>, j)) < 0
         /\ res.val.at[<<i, j>>] = Zero

----------------------------------------------------------------------------
(* C8 *)

\* the two entries are the same number, or both are NaN
SameEntry(p, q) == p = q

\* C8: for non-batched x1 [N, D] and x2 [M, D], covar_dist(x1, x2)[i, j] and
\* covar_dist(x2, x1)[j, i] are the same number for all i, j (both are NaN
\* when the pair is 0/0), whether or not the calls take the equal-inputs path.
C8_Symmetry ==
    (pc = "swapped" /\ NonBatched(call)) =>
        /\ res.kind = "ok" /\ resT.kind = "ok"
        /\ resT.val.shape = <<call.x2.shape[1], call.x1.shape[1]>>
        /\ \A i \in 1..call.x1.shape[1], j \in 1..call.x2.shape[1] :
             SameEntry(res.val.at[<<i, j>>], resT.val.at[<<j, i>>])

\* both calls made on unequal inputs with N # M, and on equal inputs that took
\* the fast path, with an entry strictly between 0 and 1
C8_Witness ==
    /\ pc = "swapped" /\ NonBatched(call)
    /\ call.x1.shape[1] = 2 /\ call.x2.shape[1] = 1
    /\ \E i \in 1..2 : res.val.at[<<i, 1>>] = <<1, 2>> /\ resT.val.at[<<1, i>>] = <<1, 2>>

----------------------------------------------------------------------------
(* C2 *)

\* the inputs as _sim receives them
SimX1 == Reshape(call.x1, call.last_dim_is_batch)

SimX2 == Reshape(call.x2, call.last_dim_is_batch)

Identical(c) == c.x1.shape = c.x2.shape /\ c.x1.at = c.x2.at

\* every entry of res.val on the diagonal of the last two dimensions is q
DiagonalIs(q) == \A i \in Indices(res.val.shape) : OnDiagonal(i) => res.val.at[i] = q

\* C2 as stated, read on non-batched inputs: whenever x1 and x2 are
\* element-wise identical, every diagonal entry of the returned matrix is
\* exactly 1, all-zero rows and gradient tracking included.
C2_DiagonalAlwaysOne ==
    (Returned1 /\ NonBatched(call) /\ Identical(call) /\ res.kind = "ok") => DiagonalIs(One)

\* C2 as amended: whenever x1 and x2 are element-wise identical and gradient
\* tracking is active on neither, every diagonal entry of the returned matrix
\* is exactly 1, all-zero rows included; with gradient tracking active on
\* either, diagonal entry [i, i] of non-batched inputs is 1 when row i is not
\* all-zero and NaN when it is.
C2_DiagonalOneWithoutGrad ==
    (Returned1 /\ Identical(call)) =>
        /\ (NoGrad(call) /\ res.kind = "ok") => DiagonalIs(One)
        /\ NonBatched(call) =>
             /\ res.kind = "ok"
             /\ ~NoGrad(call) =>
                  \A i \in 1..call.x1.shape[1] :
                      res.val.at[<<i, i>>] =
                          IF IsZeroRow(RowOf(call.x1, <<>>, i)) THEN NaN ELSE One

\* identical inputs without gradient tracking, an all-zero row among two, and a
\* matrix returned
C2_Witness ==
    /\ Returned1 /\ Identical(call) /\ NoGrad(call) /\ NonBatched(call)
    /\ call.x1.shape[1] = 2
    /\ IsZeroRow(RowOf(call.x1, <<>>, 1))
    /\ ~IsZeroRow(RowOf(call.x1, <<>>, 2))
    /\ res.kind = "ok"
    /\ res.val.at[<<1, 1>>] = One

----------------------------------------------------------------------------
(* C9 *)

\* C9 as stated, read on non-batched inputs: whenever an all-zero row of x1 meets an all-zero row of x2,
\* the call returns a matrix and the entry of the pair is NaN, diagonal entries
\* of identical inputs without gradient tracking included.
C9_ZeroPairsAlwaysNaN ==
    (Returned1 /\ NonBatched(call)) =>
        \A i \in 1..call.x1.shape[1], j \in 1..call.x2.shape[1] :
            (IsZeroRow(RowOf(call.x1, <<>>, i)) /\ IsZeroRow(RowOf(call.x2, <<>>, j))) =>
                res.kind = "ok" /\ res.val.at[<<i, j>>] = NaN

\* C9 as amended: for non-batched inputs, whenever an all-zero row of x1 meets
\* an all-zero row of x2 the call returns a matrix and the entry of the pair is
\* NaN, except on the diagonal when x1 and x2 are identical and gradient
\* tracking is active on neither: those entries are 1.
C9_ZeroPairsNaNOffFastDiagonal ==
    (Returned1 /\ NonBatched(call)) =>
        \A i \in 1..call.x1.shape[1], j \in 1..call.x2.shape[1] :
            (IsZeroRow(RowOf(call.x1, <<>>, i)) /\ IsZeroRow(RowOf(call.x2, <<>>, j))) =>
                /\ res.kind = "ok"
                /\ res.val.at[<<i, j>>] =
                     IF Identical(call) /\ NoGrad(call) /\ i = j THEN One ELSE NaN

\* two all-zero rows in identical inputs without gradient tracking: 1 on the
\* diagonal, NaN off it
C9_Witness ==
    /\ Returned1 /\ NonBatched(call) /\ Identical(call) /\ NoGrad(call)
    /\ call.x1.shape[1] = 2
    /\ IsZeroRow(RowOf(call.x1, <<>>, 1)) /\ IsZeroRow(RowOf(call.x1, <<>>, 2))
    /\ res.kind = "ok"
    /\ res.val.at[<<1, 1>>] = One
    /\ res.val.at[<<1, 2>>] = NaN

----------------------------------------------------------------------------
(* C5, C6, C7 *)

\* C5: with last_dim_is_batch=True and x1 = x2 of shape [N, D], the call
\* succeeds and returns a [D, N, N] matrix whose slice d is the Tanimoto
\* similarity of the N single-feature points x[:, d].
C5_LastDimIsBatch ==
    (Returned1 /\ call.last_dim_is_batch /\ Len(call.x1.shape) = 2 /\ Identical(call)) =>
        /\ res.kind = "ok"
        /\ res.val.shape = <<call.x1.shape[2], call.x1.shape[1], call.x1.shape[1]>>
        /\ \A d \in 1..call.x1.shape[2], i \in 1..call.x1.shape[1], j \in 1..call.x1.shape[1] :
             LET u == <<call.x1.at[<<i, d>>]>>
                 v == <<call.x1.at[<<j, d>>]>>
             IN  Den(u, v) # 0 => res.val.at[<<d, i, j>>] = TanimotoOf(u, v)

\* C6: for batched x1 [B, N, D] and x2 [B, M, D], the call returns a
\* [B, N, M] matrix whose entry [b, i, j] is the Tanimoto coefficient of
\* x1[b, i] and x2[b, j].
C6_Batches ==
    (Returned1 /\ Batched(call)) =>
        /\ res.kind = "ok"
        /\ res.val.shape = <<call.x1.shape[1], call.x1.shape[2], call.x2.shape[2]>>
        /\ \A b \in 1..call.x1.shape[1], i \in 1..call.x1.shape[2], j \in 1..call.x2.shape[2] :
             LET u == RowOf(call.x1, <<b>>, i)
                 v == RowOf(call.x2, <<b>>, j)
             IN  Den(u, v) # 0 => res.val.at[<<b, i, j>>] = TanimotoOf(u, v)

\* no row of x1 has a zero denominator with a row of x2 of the same batch
NonDegenerate ==
    \A bi \in Indices(BatchOf(SimX1.shape)) :
        \A i \in 1..SimX1.shape[Len(SimX1.shape) - 1], j \in 1..SimX2.shape[Len(SimX2.shape) - 1] :
            Den(RowOf(SimX1, bi, i), RowOf(SimX2, bi, j)) # 0

\* C7: on non-degenerate inputs every entry of the returned matrix lies in
\* [0, 1].
C7_UnitInterval ==
    (Returned1 /\ res.kind = "ok" /\ NonDegenerate) =>
        \A i \in Indices(res.val.shape) : InUnit(res.val.at[i])

\* the part of C7 the code keeps: non-batched inputs
C7_UnitIntervalNonBatched ==
    (Returned1 /\ NonBatched(call) /\ NonDegenerate) =>
        /\ res.kind = "ok"
        /\ \A i \in Indices(res.val.shape) : InUnit(res.val.at[i])

----------------------------------------------------------------------------
(* C3 *)

\* C3: on a kernel whose metric is not 'tanimoto' (the default '' included)
\* every call raises the unsupported-metric error and returns no matrix,
\* whatever the inputs and options; on a kernel with metric 'tanimoto' no call
\* raises it.
C3_UnsupportedMetric ==
    ncalls > 0 =>
        /\ metric # "tanimoto" => res = Raised("UnsupportedMetric")
        /\ metric = "tanimoto" => res.kind # "UnsupportedMetric"

\* a kernel constructed with the default metric has been called, with a cached
\* module and postprocessing on, and the call raised
C3_Witness ==
    /\ metric = ""
    /\ ncalls = 2
    /\ call.postprocess
    /\ res.kind = "UnsupportedMetric"

----------------------------------------------------------------------------
(* C4 *)

\* C4: a call constructs a new BitDistance if and only if none is cached or
\* the cached one was built with another postprocess function than the one
\* requested; otherwise the cached object stays the same object.
C4_CacheRebuild ==
    [][ncalls' = ncalls + 1 =>
         IF distance_module = None \/ distance_module._postprocess # call'.dist_postprocess_func
         THEN /\ built' = built + 1
              /\ distance_module' = [id |-> built + 1, _postprocess |-> call'.dist_postprocess_func]
         ELSE /\ built' = built
              /\ distance_module' = distance_module]_vars

\* three calls: the first built a module, one reused it, one replaced it
C4_Witness ==
    /\ ncalls = 3
    /\ built = 2
    /\ distance_module.id = 2

----------------------------------------------------------------------------
(* C10 *)

\* C10: in every interleaving of two calls with postprocessing on, the result
\* of each call is postprocessed with the function that call requested.
C10_OwnPostprocess ==
    \A t \in Threads :
        (th[t].pc = "done" /\ th[t].out.kind = "ok") =>
            th[t].out.post = th[t].c.dist_postprocess_func

=============================================================================
